---- MODULE Spec2Model ----
(***************************************************************************)
(* Model of exporter.js: a Z-Wave to Prometheus exporter.  Every 'value    *)
(* updated' event of a node is turned into a gauge sample of a lazily      *)
(* created instrument, power samples are integrated into an energy         *)
(* counter, and a watchdog timer exits the process when the resident set   *)
(* size exceeds MAX_RSS.  The process starts the driver, serves the       *)
(* registry over HTTP once the driver has started, and polls every node    *)
(* on a timer of its own.                                                  *)
(*                                                                         *)
(* Specifications.  Spec: startup, the handler over all events of the      *)
(* model, the clock and the watchdog.  SpecSkew: Spec with a clock that    *)
(* steps back.  SpecLifecycle: every trigger of the process (driver        *)
(* errors, refresh timers and scrapes too) over fewer events;              *)
(* SpecLifecycleFair adds the fairness of the interval timers.             *)
(* SpecDerive: coercion and name derivation alone.                         *)
(*                                                                         *)
(* Conventions.  A JavaScript string that the program inspects character   *)
(* by character (property names, units, metric names) is a sequence of     *)
(* one-character strings.  An optional value (undefined or a value) is the *)
(* empty sequence or a one-element sequence.  A JavaScript number is a     *)
(* record [t, n]: t = "number" with the integer n, t = "NaN", or           *)
(* t = "undefined" for the value undefined.  performance.now() is in       *)
(* milliseconds; the clock of the model only takes whole seconds, so that  *)
(* elapsed / 1000 is an integer.                                           *)
(***************************************************************************)
EXTENDS Integers, Sequences, FiniteSets, TLC

\* ------------------------------------------------------------------------
\* Bounds
MaxTime == 1            \* the clock runs from 0 to MaxTime seconds

\* ------------------------------------------------------------------------
\* Optional values and JavaScript numbers
None == <<>>
Some(v) == <<v>>

Num(n) == [t |-> "number", n |-> n]
NaN == [t |-> "NaN", n |-> 0]
Undefined == [t |-> "undefined", n |-> 0]
IsNumber(v) == v.t = "number"

\* a * b and a + b of JavaScript: undefined converts to NaN, NaN is absorbing
Times(a, b) == IF IsNumber(a) /\ IsNumber(b) THEN Num(a.n * b.n) ELSE NaN
Plus(a, b) == IF IsNumber(a) /\ IsNumber(b) THEN Num(a.n + b.n) ELSE NaN

\* ------------------------------------------------------------------------
\* Characters
UpperCase == <<"A","B","C","D","E","F","G","H","I","J","K","L","M",
               "N","O","P","Q","R","S","T","U","V","W","X","Y","Z">>
LowerCase == <<"a","b","c","d","e","f","g","h","i","j","k","l","m",
               "n","o","p","q","r","s","t","u","v","w","x","y","z">>
Digits == {"0","1","2","3","4","5","6","7","8","9"}

Range(s) == {s[i] : i \in DOMAIN s}

\* String.prototype.toLowerCase on one character
LowerChar(c) ==
  IF c \in Range(UpperCase)
  THEN LowerCase[CHOOSE i \in DOMAIN UpperCase : UpperCase[i] = c]
  ELSE c

toLowerCase(s) == [i \in DOMAIN s |-> LowerChar(s[i])]

\* s.replace(/<from>/g, <to>) for a one-character pattern
ReplaceChar(s, from, to) == [i \in DOMAIN s |-> IF s[i] = from THEN to ELSE s[i]]

\* s.replace(/[<chars>]/g, '')
StripChars(s, chars) == SelectSeq(s, LAMBDA c : c \notin chars)

\* ------------------------------------------------------------------------
\* Configuration
unit_mapping ==
  ( <<"A">>         :> <<"_","a","m","p","e","r","e","s">> ) @@
  ( <<"°","C">>     :> <<"_","c","e","l","s","i","u","s">> ) @@
  ( <<"k","W","h">> :> <<"_","k","w","h">> ) @@
  ( <<"%">>         :> <<"_","p","e","r","c","e","n","t">> ) @@
  ( <<"p","p","m">> :> <<"_","p","p","m">> ) @@
  ( <<"V">>         :> <<"_","v","o","l","t","s">> ) @@
  ( <<"W">>         :> <<"_","w","a","t","t","s">> )

\* MAX_RSS = parseInt(process.env.MAX_RSS, 10) || 0 : an unset variable
\* parses to NaN and 0 is falsy, both give 0
ParseMaxRss(env) == IF env = None THEN 0 ELSE IF env[1] = 0 THEN 0 ELSE env[1]

\* ZWAVE_INTERVAL = process.env.ZWAVE_INTERVAL || 60 : an unset variable gives
\* 60; the string '0' is truthy and stays, and compares as the number 0
ParseInterval(env) == IF env = None THEN 60 ELSE env[1]

\* 'zwave_electric_w_consumed_watts'
PowerMetricName ==
  <<"z","w","a","v","e","_","e","l","e","c","t","r","i","c","_","w","_",
    "c","o","n","s","u","m","e","d","_","w","a","t","t","s">>

\* 'zwave_estimated_power_joules'
CounterName ==
  <<"z","w","a","v","e","_","e","s","t","i","m","a","t","e","d","_",
    "p","o","w","e","r","_","j","o","u","l","e","s">>

LabelNames == {"node", "endpoint", "name"}

\* ------------------------------------------------------------------------
\* Value coercion (the typeof chain of the handler)
\* A payload is [type, b, n, unit]: type is the JavaScript shape of newValue,
\* b the boolean, n the number (or the value field of an object), unit the
\* optional unit field of an object.
\* The result is [threw, value, unit]; threw is set when reading a property
\* of null raises a TypeError.
CoerceMetadataUnitFirst(newValue, meta_unit) ==
  IF newValue.type = "boolean" THEN
    [threw |-> FALSE, value |-> Num(IF newValue.b THEN 1 ELSE 0), unit |-> None]
  ELSE IF newValue.type = "number" THEN
    [threw |-> FALSE, value |-> Num(newValue.n), unit |-> meta_unit]
  ELSE IF newValue.type = "null" THEN
    [threw |-> TRUE, value |-> Undefined, unit |-> None]
  ELSE IF newValue.type = "string" THEN
    [threw |-> FALSE, value |-> Undefined, unit |-> meta_unit]
  ELSE
    [threw |-> FALSE, value |-> Num(newValue.n),
     unit |-> IF meta_unit # None THEN meta_unit ELSE newValue.unit]

Coerce(newValue, meta_unit) ==
  IF newValue.type = "boolean" THEN
    [threw |-> FALSE, value |-> Num(IF newValue.b THEN 1 ELSE 0), unit |-> None]
  ELSE IF newValue.type = "number" THEN
    [threw |-> FALSE, value |-> Num(newValue.n), unit |-> meta_unit]
  ELSE IF newValue.type = "null" THEN
    \* null.unit
    [threw |-> TRUE, value |-> Undefined, unit |-> None]
  ELSE IF newValue.type = "string" THEN
    \* 'abc'.unit and 'abc'.value are undefined
    [threw |-> FALSE, value |-> Undefined, unit |-> meta_unit]
  ELSE
    [threw |-> FALSE, value |-> Num(newValue.n),
     unit |-> IF newValue.unit # None THEN newValue.unit ELSE meta_unit]

\* if (unit) suffix = unit_mapping[unit] ?? unit  (the empty string is falsy)
Suffix(unit) ==
  IF unit = None \/ unit = Some(<<>>) THEN <<>>
  ELSE IF unit[1] \in DOMAIN unit_mapping THEN unit_mapping[unit[1]]
  ELSE unit[1]

\* value.propertyKeyName || value.propertyName
ValueName(propertyKeyName, propertyName) ==
  IF propertyKeyName = None \/ propertyKeyName = Some(<<>>)
  THEN propertyName ELSE propertyKeyName[1]

Sanitize(value_name) ==
  StripChars(ReplaceChar(ReplaceChar(toLowerCase(value_name), " ", "_"),
                         "₂", "2"),
             {"(", ")"})

MetricName(value_name, suffix) ==
  <<"z","w","a","v","e","_">> \o Sanitize(value_name) \o suffix

\* ------------------------------------------------------------------------
\* Inputs
Nodes == {1, 2}

\* node.name
NodeName(id) == IF id = 1 THEN "kitchen" ELSE "porch"

Powers == {-100, 100, 200}

Str_ElectricWConsumed ==
  <<"E","l","e","c","t","r","i","c"," ","W"," ","C","o","n","s","u","m","e","d">>
Str_CO2Level == <<"C","O","₂"," ","(","L","e","v","e","l",")">>
Str_co2_level == <<"c","o","2"," ","l","e","v","e","l">>
Str_Water == <<"W","a","t","e","r">>
Str_USGallons == <<"U","S"," ","g","a","l","l","o","n","s">>

Boolean(b) == [type |-> "boolean", b |-> b, n |-> 0, unit |-> None]
Number(n) == [type |-> "number", b |-> FALSE, n |-> n, unit |-> None]
Object(n, unit) == [type |-> "object", b |-> FALSE, n |-> n, unit |-> unit]
String == [type |-> "string", b |-> FALSE, n |-> 0, unit |-> None]
Null == [type |-> "null", b |-> FALSE, n |-> 0, unit |-> None]

WellFormed(newValue) == newValue.type \in {"boolean", "number", "object"}

\* The properties of the devices: [propertyName, unit, label] is the value id
\* and its metadata, newValue ranges over what the device reports for it.
Event(node, propertyName, unit, label, newValue) ==
  [node |-> node, endpoint |-> 0, propertyName |-> propertyName,
   propertyKeyName |-> None, newValue |-> newValue,
   unit |-> unit, label |-> label]

\* Node 1 reports a power meter (numbers, and two malformed payloads), a CO2
\* sensor under two property names that derive one metric name, and a water
\* sensor whose unit is not in unit_mapping; node 2 reports a power meter.
Events ==
  { Event(1, Str_ElectricWConsumed, Some(<<"W">>), "Electric Consumption [W]", v)
      : v \in {Number(p) : p \in Powers} \cup {String, Null} }
  \cup
  { Event(1, Str_CO2Level, Some(<<"p","p","m">>), "Carbon dioxide CO₂ level", Number(100)),
    Event(1, Str_co2_level, None, "co2 level", Object(200, Some(<<"p","p","m">>))),
    Event(1, Str_Water, Some(Str_USGallons), "Water", Number(100)),
    Event(2, Str_ElectricWConsumed, Some(<<"W">>), "Electric Consumption [W]", Number(100)) }

\* ------------------------------------------------------------------------
\* State
VARIABLES
  ready,             \* 'driver ready' has fired: the handlers are attached
  now,               \* performance.now(), in milliseconds
  metrics,           \* metrics: metric_name -> gauge [help, labelNames, hashMap]
  registry,          \* prometheus.register: the instruments, in registration order
  consumption,       \* consumption: key -> [last, joules]
  consumed_counter,  \* the hashMap of consumed_counter: labels -> number
  thrown,            \* the error that ended the last reaction, or "none"
  MAX_RSS,           \* the memory ceiling, read from the environment
  rss,               \* the resident set size read by the last watchdog tick
  exit_code,         \* None while the process runs, Some(1) after process.exit(1)
  input,             \* an event whose coercion and metric name are computed alone
  output,            \* the coercion and the metric name computed for input
  listening,         \* driver.start() has resolved and server.listen was called
  stderr,            \* the last entry logged at level error, or "none"
  ZWAVE_INTERVAL,    \* the refresh interval in seconds, read from the environment
  timers,            \* the nodes that have a refresh interval timer
  polled,            \* the nodes whose refreshValues() has been invoked
  last_polled,       \* the node of the latest refreshValues() invocation
  response           \* the latest response of the HTTP server

\* The refresh timers and what they did
polling == <<timers, polled, last_polled>>

\* The state outside the 'value updated' handler, the clock and the watchdog
lifecycle == <<listening, stderr, ZWAVE_INTERVAL, polling, response>>

vars == <<ready, now, metrics, registry, consumption, consumed_counter,
          thrown, MAX_RSS, rss, exit_code, input, output, lifecycle>>

RssValues == {1000, 1500}
EnvMaxRss == {None, Some(0), Some(1000)}

\* process.env.ZWAVE_INTERVAL: unset or '0'
EnvInterval == {None, Some(0)}

\* ------------------------------------------------------------------------
\* prom-client, as far as the program calls it
MetricNameChars == Range(UpperCase) \cup Range(LowerCase) \cup Digits \cup {"_", ":"}

\* validateMetricName of the Counter and Gauge constructors:
\* /^[a-zA-Z_:][a-zA-Z0-9_:]*$/
ValidMetricName(name) ==
  /\ name # <<>>
  /\ name[1] \notin Digits
  /\ \A i \in DOMAIN name : name[i] \in MetricNameChars

Registered(reg) == {reg[i].name : i \in DOMAIN reg}

\* The part of the state one reaction works on, threaded through its steps;
\* a step is skipped once an earlier step has thrown.
Program ==
  [metrics |-> metrics, registry |-> registry, consumption |-> consumption,
   consumed_counter |-> consumed_counter, thrown |-> "none"]

Throw(P, error) == [P EXCEPT !.thrown = error]

\* metrics[metric_name] = new prometheus.Gauge({name, help, labelNames}):
\* the constructor validates the name and registers the gauge with the
\* global registry, which refuses a name it already holds; the assignment
\* to metrics happens only when the constructor returns.
NewGaugeRegistersUnchecked(P, metric_name, help) ==
  IF metric_name \in Registered(P.registry)
  THEN Throw(P, "A metric with this name has already been registered")
  ELSE LET registered == [P EXCEPT !.registry =
                            Append(@, [name |-> metric_name, type |-> "gauge", help |-> help])]
       IN IF ~ValidMetricName(metric_name) THEN Throw(registered, "Invalid metric name")
          ELSE [registered EXCEPT
                  !.metrics = (metric_name :>
                                 [help |-> help, labelNames |-> LabelNames, hashMap |-> <<>>]) @@ @]

NewGauge(P, metric_name, help) ==
  IF ~ValidMetricName(metric_name) THEN Throw(P, "Invalid metric name")
  ELSE IF metric_name \in Registered(P.registry)
  THEN Throw(P, "A metric with this name has already been registered")
  ELSE [P EXCEPT
          !.registry = Append(@, [name |-> metric_name, type |-> "gauge", help |-> help]),
          !.metrics = (metric_name :>
                         [help |-> help, labelNames |-> LabelNames, hashMap |-> <<>>]) @@ @]

\* metric_name in metrics
InMetrics(metric_name, m) == metric_name \in DOMAIN m

\* if (! (metric_name in metrics)) metrics[metric_name] = new prometheus.Gauge(..)
GetOrCreateLastWins(P, metric_name, help) ==
  IF P.thrown # "none" THEN P
  ELSE IF InMetrics(metric_name, P.metrics)
  THEN [P EXCEPT !.metrics[metric_name].help = help]
  ELSE NewGauge(P, metric_name, help)

GetOrCreate(P, metric_name, help) ==
  IF P.thrown # "none" \/ InMetrics(metric_name, P.metrics) THEN P
  ELSE NewGauge(P, metric_name, help)

\* consumed_counter.inc(labels, value): a negative value throws, NaN is added
CounterInc(P, labels, value) ==
  LET old == IF labels \in DOMAIN P.consumed_counter
             THEN P.consumed_counter[labels] ELSE Num(0)
  IN IF IsNumber(value) /\ value.n < 0
     THEN Throw(P, "It is not possible to decrease a counter")
     ELSE [P EXCEPT !.consumed_counter = (labels :> Plus(old, value)) @@ @]

\* metrics[metric_name].set(labels, value): a value that is no number throws
GaugeSet(P, metric_name, labels, value) ==
  IF P.thrown # "none" THEN P
  ELSE IF ~IsNumber(value) THEN Throw(P, "Value is not a valid number")
  ELSE [P EXCEPT !.metrics[metric_name].hashMap = (labels :> value) @@ @]

\* ------------------------------------------------------------------------
\* The 'value updated' handler
Labels(e) == [node |-> e.node, endpoint |-> e.endpoint, name |-> NodeName(e.node)]

\* `${node.id}:${value.endpoint}`
KeyOfEndpointOnly(e) == <<1, e.endpoint>>

Key(e) == <<e.node, e.endpoint>>

\* Lines 81-102 of the handler: the metric name is a function of the event
DeriveName(e) ==
  MetricName(ValueName(e.propertyKeyName, e.propertyName),
             Suffix(Coerce(e.newValue, e.unit).unit))

\* DeriveName tabulated over the events of the model
MetricNameTable == [e \in Events |-> DeriveName(e)]

MetricNameOf(e) == MetricNameTable[e]

\* let energy = metricValue * elapsed, with elapsed in seconds
EnergyOfMilliseconds(metricValue, time, last) == Times(metricValue, Num(time - last))

Energy(metricValue, time, last) == Times(metricValue, Num((time - last) \div 1000))

\* if (metric_name == 'zwave_electric_w_consumed_watts') { ... }
AccrueEveryNumber(P, e, metric_name, metricValue, time) ==
  IF P.thrown # "none" \/ ~IsNumber(metricValue) THEN P
  ELSE IF Key(e) \in DOMAIN P.consumption
  THEN LET rec == P.consumption[Key(e)]
           energy == Energy(metricValue, time, rec.last)
           accrued == [P EXCEPT !.consumption[Key(e)] =
                                   [last |-> time, joules |-> Plus(rec.joules, energy)]]
       IN CounterInc(accrued, Labels(e), energy)
  ELSE [P EXCEPT !.consumption = (Key(e) :> [last |-> time, joules |-> Num(0)]) @@ @]

AccrueFromProcessStart(P, e, metric_name, metricValue, time) ==
  IF P.thrown # "none" \/ metric_name # PowerMetricName THEN P
  ELSE LET rec == IF Key(e) \in DOMAIN P.consumption THEN P.consumption[Key(e)]
                  ELSE [last |-> 0, joules |-> Num(0)]
           energy == Energy(metricValue, time, rec.last)
           accrued == [P EXCEPT !.consumption =
                         (Key(e) :> [last |-> time, joules |-> Plus(rec.joules, energy)]) @@ @]
       IN CounterInc(accrued, Labels(e), energy)

Accrue(P, e, metric_name, metricValue, time) ==
  IF P.thrown # "none" \/ metric_name # PowerMetricName THEN P
  ELSE IF Key(e) \in DOMAIN P.consumption
  THEN LET rec == P.consumption[Key(e)]
           energy == Energy(metricValue, time, rec.last)
           accrued == [P EXCEPT !.consumption[Key(e)] =
                                   [last |-> time, joules |-> Plus(rec.joules, energy)]]
       IN CounterInc(accrued, Labels(e), energy)
  ELSE [P EXCEPT !.consumption = (Key(e) :> [last |-> time, joules |-> Num(0)]) @@ @]

Handle(P, e, time) ==
  LET c == Coerce(e.newValue, e.unit)
      metric_name == MetricNameOf(e)
  IN IF c.threw THEN Throw(P, "TypeError: Cannot read properties of null")
     ELSE GaugeSet(Accrue(GetOrCreate(P, metric_name, e.label),
                          e, metric_name, c.value, time),
                   metric_name, Labels(e), c.value)

Running == exit_code = None

ValueUpdated(e) ==
  /\ Running
  /\ ready
  /\ LET P == Handle(Program, e, now)
     IN /\ metrics' = P.metrics
        /\ registry' = P.registry
        /\ consumption' = P.consumption
        /\ consumed_counter' = P.consumed_counter
        /\ thrown' = P.thrown
  /\ UNCHANGED <<ready, now, MAX_RSS, rss, exit_code, input, output, lifecycle>>

\* driver.controller.nodes is iterated in the order of the node ids
DriverReadyOneSharedTimer ==
  /\ Running
  /\ listening
  /\ ~ready
  /\ ready' = TRUE
  /\ IF ZWAVE_INTERVAL > 0
     THEN /\ timers' = {CHOOSE n \in Nodes : \A m \in Nodes : m <= n}
          /\ polled' = Nodes
          /\ last_polled' = Some(CHOOSE n \in Nodes : \A m \in Nodes : m <= n)
     ELSE UNCHANGED polling
  /\ UNCHANGED <<now, metrics, registry, consumption, consumed_counter,
                 thrown, MAX_RSS, rss, exit_code, input, output,
                 listening, stderr, ZWAVE_INTERVAL, response>>

LastNode == CHOOSE n \in Nodes : \A m \in Nodes : m <= n

\* driver.once('driver ready'): the handlers are attached to the nodes and,
\* if (ZWAVE_INTERVAL > 0), every node gets an interval timer of its own and
\* one immediate refreshValues(). The driver emits 'driver ready' after
\* start() has resolved: the controller is interviewed once the port is open.
DriverReady ==
  /\ Running
  /\ listening
  /\ ~ready
  /\ ready' = TRUE
  /\ IF ZWAVE_INTERVAL > 0
     THEN /\ timers' = Nodes
          /\ polled' = Nodes
          /\ last_polled' = Some(LastNode)
     ELSE UNCHANGED polling
  /\ UNCHANGED <<now, metrics, registry, consumption, consumed_counter,
                 thrown, MAX_RSS, rss, exit_code, input, output,
                 listening, stderr, ZWAVE_INTERVAL, response>>

\* Time passes: performance.now() is monotonic
Tick ==
  /\ Running
  /\ \E t \in 1..MaxTime : t * 1000 > now /\ now' = t * 1000
  /\ UNCHANGED <<ready, metrics, registry, consumption, consumed_counter,
                 thrown, MAX_RSS, rss, exit_code, input, output, lifecycle>>

\* if (rss > MAX_RSS)
ExceedsOrReaches(observed, ceiling) == observed >= ceiling

Exceeds(observed, ceiling) == observed > ceiling

\* The watchdog: if (MAX_RSS > 0) setInterval(.., 60 * 1000)
Watchdog(observed) ==
  /\ Running
  /\ MAX_RSS > 0
  /\ rss' = observed
  /\ exit_code' = IF Exceeds(observed, MAX_RSS) THEN Some(1) ELSE exit_code
  /\ stderr' = IF Exceeds(observed, MAX_RSS) THEN "RSS exceeded MAX_RSS. Exiting." ELSE stderr
  /\ UNCHANGED <<ready, now, metrics, registry, consumption, consumed_counter,
                 thrown, MAX_RSS, input, output,
                 listening, ZWAVE_INTERVAL, polling, response>>

\* The async main function: catch (err) { log('error', err); process.exit(1); }
\* The server is never created.
StartFailsAndListens ==
  /\ Running
  /\ ~listening
  /\ listening' = TRUE
  /\ stderr' = "driver.start() failed"
  /\ UNCHANGED <<ready, now, metrics, registry, consumption, consumed_counter,
                 thrown, MAX_RSS, rss, exit_code, input, output,
                 ZWAVE_INTERVAL, polling, response>>

StartFails ==
  /\ Running
  /\ ~listening
  /\ exit_code' = Some(1)
  /\ stderr' = "driver.start() failed"
  /\ UNCHANGED <<ready, now, metrics, registry, consumption, consumed_counter,
                 thrown, MAX_RSS, rss, input, output,
                 listening, ZWAVE_INTERVAL, polling, response>>

\* The async main function: await driver.start() resolves, then
\* http.createServer(..) and server.listen(METRICS_PORT)
StartResolves ==
  /\ Running
  /\ ~listening
  /\ listening' = TRUE
  /\ UNCHANGED <<ready, now, metrics, registry, consumption, consumed_counter,
                 thrown, MAX_RSS, rss, exit_code, input, output,
                 stderr, ZWAVE_INTERVAL, polling, response>>

\* The state once the module is loaded, ZWAVE_INTERVAL being unset
Init ==
  /\ ready = FALSE
  /\ now = 0
  /\ metrics = <<>>
  /\ registry = <<[name |-> CounterName, type |-> "counter",
                   help |-> "Estimated power consumption"]>>
  /\ consumption = <<>>
  /\ consumed_counter = <<>>
  /\ thrown = "none"
  /\ MAX_RSS \in {ParseMaxRss(env) : env \in EnvMaxRss}
  /\ rss = 0
  /\ exit_code = None
  /\ input = None
  /\ output = None
  /\ listening = FALSE
  /\ stderr = "none"
  /\ ZWAVE_INTERVAL = ParseInterval(None)
  /\ timers = {}
  /\ polled = {}
  /\ last_polled = None
  /\ response = None

Next ==
  \/ StartFails
  \/ StartResolves
  \/ DriverReady
  \/ Tick
  \/ \E e \in Events : ValueUpdated(e)
  \/ \E observed \in RssValues : Watchdog(observed)

Spec == Init /\ [][Next]_vars

\* ------------------------------------------------------------------------
\* A clock that is not monotonic: performance.now() replaced by a source
\* that can step back
ClockStepsBack ==
  /\ Running
  /\ \E t \in 0..MaxTime : t * 1000 < now /\ now' = t * 1000
  /\ UNCHANGED <<ready, metrics, registry, consumption, consumed_counter,
                 thrown, MAX_RSS, rss, exit_code, input, output, lifecycle>>

InitSkew ==
  /\ ready = FALSE
  /\ now \in {t * 1000 : t \in 0..MaxTime}
  /\ metrics = <<>>
  /\ registry = <<[name |-> CounterName, type |-> "counter",
                   help |-> "Estimated power consumption"]>>
  /\ consumption = <<>>
  /\ consumed_counter = <<>>
  /\ thrown = "none"
  /\ MAX_RSS \in {ParseMaxRss(env) : env \in EnvMaxRss}
  /\ rss = 0
  /\ exit_code = None
  /\ input = None
  /\ output = None
  /\ listening = FALSE
  /\ stderr = "none"
  /\ ZWAVE_INTERVAL = ParseInterval(None)
  /\ timers = {}
  /\ polled = {}
  /\ last_polled = None
  /\ response = None

\* The clock only steps back, so that the accumulated energy stays bounded
NextSkew ==
  \/ StartFails
  \/ StartResolves
  \/ DriverReady
  \/ ClockStepsBack
  \/ \E e \in Events : ValueUpdated(e)
  \/ \E observed \in RssValues : Watchdog(observed)

SpecSkew == InitSkew /\ [][NextSkew]_vars

\* ------------------------------------------------------------------------
\* Every trigger of the process, over fewer 'value updated' events: Spec
\* leaves out the triggers below, which write nothing the handler reads.

\* driver.on('error', (err) => { log("error", err); }), once start() resolved
DriverError ==
  /\ Running
  /\ listening
  /\ stderr' = "driver error"
  /\ UNCHANGED <<ready, now, metrics, registry, consumption, consumed_counter,
                 thrown, MAX_RSS, rss, exit_code, input, output,
                 listening, ZWAVE_INTERVAL, polling, response>>

\* setInterval(() => { node.refreshValues().then(); }, ZWAVE_INTERVAL * 1000)
RefreshTimer(n) ==
  /\ Running
  /\ n \in timers
  /\ polled' = polled \cup {n}
  /\ last_polled' = Some(n)
  /\ UNCHANGED <<ready, now, metrics, registry, consumption, consumed_counter,
                 thrown, MAX_RSS, rss, exit_code, input, output,
                 listening, stderr, ZWAVE_INTERVAL, timers, response>>

Requests ==
  {[url |-> "/metrics", method |-> "GET"],
   [url |-> "/metrics", method |-> "POST"],
   [url |-> "/", method |-> "GET"]}

\* prometheus.register.metrics(): every registered instrument, in
\* registration order (the samples are left out)
Exposition(reg) == [i \in DOMAIN reg |-> reg[i].name]

\* The request handler of http.createServer
Scrape(req) ==
  /\ Running
  /\ listening
  /\ response' = IF req.url = "/metrics" /\ req.method = "GET"
                 THEN Some([status |-> 200, body |-> Exposition(registry)])
                 ELSE Some([status |-> 404, body |-> <<>>])
  /\ UNCHANGED <<ready, now, metrics, registry, consumption, consumed_counter,
                 thrown, MAX_RSS, rss, exit_code, input, output,
                 listening, stderr, ZWAVE_INTERVAL, polling>>

\* Both power meters, and the water sensor whose gauge cannot be constructed
LifecycleEvents ==
  { Event(1, Str_ElectricWConsumed, Some(<<"W">>), "Electric Consumption [W]", Number(100)),
    Event(1, Str_ElectricWConsumed, Some(<<"W">>), "Electric Consumption [W]", Number(-100)),
    Event(2, Str_ElectricWConsumed, Some(<<"W">>), "Electric Consumption [W]", Number(100)),
    Event(1, Str_Water, Some(Str_USGallons), "Water", Number(100)) }

\* The state once the module is loaded, with ZWAVE_INTERVAL unset or '0'
InitLifecycle ==
  /\ ready = FALSE
  /\ now = 0
  /\ metrics = <<>>
  /\ registry = <<[name |-> CounterName, type |-> "counter",
                   help |-> "Estimated power consumption"]>>
  /\ consumption = <<>>
  /\ consumed_counter = <<>>
  /\ thrown = "none"
  /\ MAX_RSS \in {ParseMaxRss(env) : env \in EnvMaxRss}
  /\ rss = 0
  /\ exit_code = None
  /\ input = None
  /\ output = None
  /\ listening = FALSE
  /\ stderr = "none"
  /\ ZWAVE_INTERVAL \in {ParseInterval(env) : env \in EnvInterval}
  /\ timers = {}
  /\ polled = {}
  /\ last_polled = None
  /\ response = None

NextLifecycle ==
  \/ StartFails
  \/ StartResolves
  \/ DriverReady
  \/ DriverError
  \/ Tick
  \/ \E e \in LifecycleEvents : ValueUpdated(e)
  \/ \E n \in Nodes : RefreshTimer(n)
  \/ \E req \in Requests : Scrape(req)
  \/ \E observed \in RssValues : Watchdog(observed)

SpecLifecycle == InitLifecycle /\ [][NextLifecycle]_vars

\* The event loop runs every interval timer that is due: each node's timer
\* fires again and again while the process runs
SpecLifecycleFair ==
  SpecLifecycle /\ \A n \in Nodes : WF_vars(RefreshTimer(n))

\* ------------------------------------------------------------------------
\* Coercion and name derivation alone (lines 81-102), over a wider set of
\* events than the devices of Spec report
InputNames == {Str_ElectricWConsumed, Str_CO2Level, Str_co2_level, Str_Water}
InputKeyNames == {None, Some(<<>>), Some(Str_CO2Level)}
InputUnits ==
  {None, Some(<<>>), Some(<<"d","B">>), Some(Str_USGallons)}
  \cup {Some(u) : u \in DOMAIN unit_mapping}
InputValues ==
  {Boolean(TRUE), Boolean(FALSE), Number(0), Number(42), Number(-100), String, Null}
  \cup {Object(3, u) : u \in {None, Some(<<>>), Some(<<"V">>), Some(Str_USGallons)}}

Inputs ==
  { [node |-> 1, endpoint |-> 0, propertyName |-> n, propertyKeyName |-> k,
     newValue |-> v, unit |-> u, label |-> ""]
      : n \in InputNames, k \in InputKeyNames, u \in InputUnits, v \in InputValues }

InitDerive ==
  /\ ready = TRUE
  /\ now = 0
  /\ metrics = <<>>
  /\ registry = <<[name |-> CounterName, type |-> "counter",
                   help |-> "Estimated power consumption"]>>
  /\ consumption = <<>>
  /\ consumed_counter = <<>>
  /\ thrown = "none"
  /\ MAX_RSS = 0
  /\ rss = 0
  /\ exit_code = None
  /\ input \in {Some(e) : e \in Inputs}
  /\ output = None
  /\ listening = TRUE
  /\ stderr = "none"
  /\ ZWAVE_INTERVAL = 0
  /\ timers = {}
  /\ polled = {}
  /\ last_polled = None
  /\ response = None

Derive ==
  /\ input # None
  /\ output = None
  /\ LET e == input[1]
         c == Coerce(e.newValue, e.unit)
     IN output' = Some([threw |-> c.threw, value |-> c.value, unit |-> c.unit,
                        metric_name |-> IF c.threw THEN <<>> ELSE DeriveName(e)])
  /\ UNCHANGED <<ready, now, metrics, registry, consumption, consumed_counter,
                 thrown, MAX_RSS, rss, exit_code, input, lifecycle>>

SpecDerive == InitDerive /\ [][Derive]_vars

\* ------------------------------------------------------------------------
\* Properties

PowerGauge(m) == m[PowerMetricName].hashMap

\* e is a power sample: a well-formed event that derives the power metric
PowerSample(e) == WellFormed(e.newValue) /\ MetricNameOf(e) = PowerMetricName

\* The value of a counter's label set, 0 before its first increment
CounterValue(c, labels) == IF labels \in DOMAIN c THEN c[labels] ELSE Num(0)

\* Exactly one power sample of e's key has been processed: the accumulator
\* exists, nothing was integrated, and the gauge holds that sample's power
FirstSampleTaken(e) ==
  /\ Key(e) \in DOMAIN consumption
  /\ consumption[Key(e)].joules = Num(0)
  /\ Labels(e) \notin DOMAIN consumed_counter
  /\ PowerMetricName \in DOMAIN metrics
  /\ Labels(e) \in DOMAIN PowerGauge(metrics)

ElapsedSeconds(e) == (now - consumption[Key(e)].last) \div 1000

\* C1 (as claimed): per derived identifier, the first event that yields it
\* creates and registers exactly one gauge, and every later event that yields
\* it keeps that gauge and registers nothing.
C1_OneInstrumentPerIdentifier ==
  [][\A e \in Events :
       (ValueUpdated(e) /\ ~Coerce(e.newValue, e.unit).threw) =>
         LET id == MetricNameOf(e)
         IN IF id \in DOMAIN metrics
            THEN /\ registry' = registry
                 /\ DOMAIN metrics' = DOMAIN metrics
                 /\ metrics'[id].help = metrics[id].help
            ELSE /\ id \in DOMAIN metrics'
                 /\ registry' = Append(registry, [name |-> id, type |-> "gauge",
                                                  help |-> e.label])]_vars

\* C2 (as claimed): the delta reported at the second power sample of a key is
\* the first sample's power times the elapsed seconds (stated for samples of
\* positive power, as in the claim's examples: 100 W then 200 W).
C2_DeltaUsesFirstSample ==
  [][\A e \in Events :
       (/\ ValueUpdated(e) /\ PowerSample(e) /\ FirstSampleTaken(e)
        /\ Coerce(e.newValue, e.unit).value.n > 0
        /\ PowerGauge(metrics)[Labels(e)].n > 0) =>
         CounterValue(consumed_counter', Labels(e))
           = Times(PowerGauge(metrics)[Labels(e)], Num(ElapsedSeconds(e)))]_vars

\* C2 (amended): the first power sample of a key reports no delta; at every
\* later sample the delta is the current sample's power times the elapsed
\* seconds: it is added to cumulativeJoules and to the counter, except that
\* the counter refuses a negative delta.
C2_DeltaUsesCurrentSample ==
  [][\A e \in Events :
       (ValueUpdated(e) /\ PowerSample(e)) =>
         IF Key(e) \notin DOMAIN consumption
         THEN /\ consumed_counter' = consumed_counter
              /\ consumption'[Key(e)].joules = Num(0)
         ELSE LET delta == Times(Coerce(e.newValue, e.unit).value, Num(ElapsedSeconds(e)))
              IN /\ consumption'[Key(e)].joules = Plus(consumption[Key(e)].joules, delta)
                 /\ IF delta.n >= 0
                    THEN CounterValue(consumed_counter', Labels(e))
                           = Plus(CounterValue(consumed_counter, Labels(e)), delta)
                    ELSE /\ consumed_counter' = consumed_counter
                         /\ thrown' = "It is not possible to decrease a counter"]_vars

\* C2 witness: 100 W, then 200 W one second later: 200 J were reported
C2_Witness ==
  /\ now = 1000
  /\ [node |-> 1, endpoint |-> 0, name |-> "kitchen"] \in DOMAIN consumed_counter
  /\ consumed_counter[[node |-> 1, endpoint |-> 0, name |-> "kitchen"]] = Num(200)
  /\ consumption[<<1, 0>>] = [last |-> 1000, joules |-> Num(200)]
  /\ PowerGauge(metrics)[[node |-> 1, endpoint |-> 0, name |-> "kitchen"]] = Num(200)

Decreases(old, new) == IsNumber(old) /\ IsNumber(new) /\ new.n < old.n

\* C4 (as claimed): no step removes a key of the accumulator map or decreases
\* its cumulativeJoules.
C4_JoulesNeverDecrease ==
  [][\A k \in DOMAIN consumption :
       /\ k \in DOMAIN consumption'
       /\ ~Decreases(consumption[k].joules, consumption'[k].joules)]_vars

\* C5 (as claimed): an event whose payload is no boolean, number or object is
\* isolated: it creates no instrument, sets no gauge, and changes neither
\* the accumulators nor the counter.
C5_MalformedEventIsolated ==
  [][\A e \in Events :
       (ValueUpdated(e) /\ ~WellFormed(e.newValue)) =>
         UNCHANGED <<metrics, registry, consumption, consumed_counter>>]_vars

\* C6: with a ceiling above zero, a tick that reads a resident set size above
\* the ceiling exits with status 1 and a tick that reads at most the ceiling
\* does not exit; with a ceiling of 0 (or unset) no tick ever runs.
C6_Watchdog ==
  /\ [](MAX_RSS > 0 /\ rss > MAX_RSS => exit_code = Some(1))
  /\ [](MAX_RSS <= 0 => rss = 0 /\ stderr # "RSS exceeded MAX_RSS. Exiting.")
  /\ [][\A observed \in RssValues :
          Watchdog(observed) =>
            /\ MAX_RSS > 0
            /\ exit_code' = IF observed > MAX_RSS THEN Some(1) ELSE None]_vars

\* C6 witness: ceiling 1000, a tick read 1500, the process exited with 1
C6_Witness == MAX_RSS = 1000 /\ rss = 1500 /\ exit_code = Some(1)

\* C7: a boolean coerces to 1 or 0 without a unit, a number to itself with
\* the metadata unit, an object to its value with its own unit when it has
\* one and the metadata unit otherwise.
C7_Coercion ==
  output # None =>
    LET e == input[1]
        v == e.newValue
        o == output[1]
    IN /\ v.type = "boolean" =>
            /\ o.value = Num(IF v.b THEN 1 ELSE 0)
            /\ o.unit = None
       /\ v.type = "number" => o.value = Num(v.n) /\ o.unit = e.unit
       /\ v.type = "object" =>
            /\ o.value = Num(v.n)
            /\ o.unit = IF v.unit # None THEN v.unit ELSE e.unit

\* C7 witness: {value: 3, unit: 'V'} with metadata unit 'W' coerced to (3, 'V')
C7_Witness ==
  /\ output # None
  /\ input[1].newValue = Object(3, Some(<<"V">>))
  /\ input[1].unit = Some(<<"W">>)
  /\ output[1].value = Num(3)
  /\ output[1].unit = Some(<<"V">>)

\* C8 (as claimed): the derived identifier contains no space, no subscript
\* two and no parenthesis, whatever the property name and the unit.
C8_IdentifierIsClean ==
  (output # None /\ ~output[1].threw) =>
    Range(output[1].metric_name) \cap {" ", "₂", "(", ")"} = {}

\* C9 (as claimed, for power events): a power sample that follows an earlier
\* one leaves the power gauge, at the labels of the event, equal to the later
\* sample's value.
C9_GaugeHoldsLastValue ==
  [][\A e \in Events :
       (/\ ValueUpdated(e) /\ PowerSample(e)
        /\ PowerMetricName \in DOMAIN metrics
        /\ Labels(e) \in DOMAIN PowerGauge(metrics)) =>
         /\ PowerMetricName \in DOMAIN metrics'
         /\ Labels(e) \in DOMAIN PowerGauge(metrics')
         /\ PowerGauge(metrics')[Labels(e)] = Coerce(e.newValue, e.unit).value]_vars

\* 'zwave_co2_level_ppm', derived from 'CO₂ (Level)' and from 'co2 level'
Co2MetricName == MetricName(Str_co2_level, unit_mapping[<<"p","p","m">>])

\* C10: an instrument, once created, keeps its description and its label
\* names, and its entry in the registry, at every later step; the registry
\* holds one instrument per name, and exactly the cached gauges besides the
\* counter.
C10_FirstRegistrationWins ==
  /\ [](/\ \A i, j \in DOMAIN registry :
             registry[i].name = registry[j].name => i = j
        /\ DOMAIN metrics = Registered(registry) \ {CounterName}
        /\ \A i \in DOMAIN registry :
             registry[i].type = "gauge" =>
               metrics[registry[i].name].help = registry[i].help)
  /\ [][/\ \A id \in DOMAIN metrics :
             /\ id \in DOMAIN metrics'
             /\ metrics'[id].help = metrics[id].help
             /\ metrics'[id].labelNames = metrics[id].labelNames
        /\ \A i \in DOMAIN registry :
             i \in DOMAIN registry' /\ registry'[i] = registry[i]]_vars

\* C10 witness: the gauge was created by 'co2 level' (its description) and
\* then set to 100 by 'CO₂ (Level)', a different property name with a
\* different label that derives the same identifier
C10_Witness ==
  /\ Str_CO2Level # Str_co2_level
  /\ MetricName(Str_CO2Level, unit_mapping[<<"p","p","m">>]) = Co2MetricName
  /\ Co2MetricName \in DOMAIN metrics
  /\ metrics[Co2MetricName].help = "co2 level"
  /\ [node |-> 1, endpoint |-> 0, name |-> "kitchen"] \in DOMAIN metrics[Co2MetricName].hashMap
  /\ metrics[Co2MetricName].hashMap[[node |-> 1, endpoint |-> 0, name |-> "kitchen"]] = Num(100)

\* C11: a failed driver start exits with status 1 and the listener is never
\* started; the listener starts only when the driver start resolves, with
\* the process running; a driver error after startup is logged and changes
\* nothing else: the process keeps running.
C11_StartupAndDriverErrors ==
  /\ [](stderr = "driver.start() failed" => exit_code = Some(1) /\ ~listening)
  /\ [](response # None => listening)
  /\ [][StartFails => exit_code' = Some(1) /\ ~listening']_vars
  /\ [][(~listening /\ listening') => (StartResolves /\ exit_code' = None)]_vars
  /\ [][DriverError =>
          /\ stderr' = "driver error"
          /\ exit_code' = None
          /\ UNCHANGED <<ready, listening, metrics, registry, consumption,
                         consumed_counter, polling, response>>]_vars

\* C11 witness: a driver error was logged after the power gauge was created,
\* and the process runs and answered a scrape afterwards
C11_Witness ==
  /\ stderr = "driver error"
  /\ exit_code = None
  /\ listening
  /\ response # None
  /\ response[1].status = 200
  /\ PowerMetricName \in Range(response[1].body)

\* C12: with a refresh interval of 0 no refreshValues() is ever invoked and no
\* timer exists; with an interval above 0, 'driver ready' invokes one
\* refreshValues() on every node and gives every node a timer, and from then
\* on every node is refreshed again, always, unless the process exits.
C12_Polling ==
  /\ [](ZWAVE_INTERVAL <= 0 => timers = {} /\ polled = {} /\ last_polled = None)
  /\ [](~ready => timers = {} /\ polled = {})
  /\ [][(DriverReady /\ ZWAVE_INTERVAL > 0) => polled' = Nodes]_vars
  /\ \A n \in Nodes :
       [](ready /\ ZWAVE_INTERVAL > 0 => <>(last_polled = Some(n) \/ exit_code # None))

\* C12 witness: with the default interval, node 1 was refreshed by its timer
\* after node 2 (the last node refreshed at 'driver ready'), between events
C12_Witness ==
  /\ ZWAVE_INTERVAL = 60
  /\ ready
  /\ timers = Nodes
  /\ last_polled = Some(1)
  /\ LastNode = 2
  /\ <<1, 0>> \in DOMAIN consumption

\* e derives the power metric name, whatever its payload
DerivesPower(e) == ~Coerce(e.newValue, e.unit).threw /\ MetricNameOf(e) = PowerMetricName

KeyOfLabels(labels) == <<labels.node, labels.endpoint>>

\* C13: the first power event of a key creates the state (now, 0) of that key
\* and leaves the counter as it is; the counter of a label set appears or
\* changes only in a step that found the state of its key already there.
C13_FirstSampleOnlyCreatesState ==
  /\ [][\A e \in Events :
          (ValueUpdated(e) /\ DerivesPower(e) /\ Key(e) \notin DOMAIN consumption) =>
            /\ consumption' = (Key(e) :> [last |-> now, joules |-> Num(0)]) @@ consumption
            /\ consumed_counter' = consumed_counter]_vars
  /\ [][\A labels \in DOMAIN consumed_counter' :
          (\/ labels \notin DOMAIN consumed_counter
           \/ consumed_counter'[labels] # CounterValue(consumed_counter, labels)) =>
            KeyOfLabels(labels) \in DOMAIN consumption]_vars
  /\ [](\A labels \in DOMAIN consumed_counter : KeyOfLabels(labels) \in DOMAIN consumption)

\* C13 witness: node 2 sent its first power sample at t = 1 s; its state is
\* (1000, 0) and its counter has no value, while node 1's counter has one
C13_Witness ==
  /\ <<2, 0>> \in DOMAIN consumption
  /\ consumption[<<2, 0>>] = [last |-> 1000, joules |-> Num(0)]
  /\ DOMAIN consumed_counter = {[node |-> 1, endpoint |-> 0, name |-> "kitchen"]}

\* C14 (as claimed): a power sample of a key that has state adds the current
\* power times the elapsed seconds to cumulativeJoules, sets
\* lastObservationTimestamp to now, and increments the counter by that delta.
C14_DeltaAccrued ==
  [][\A e \in Events :
       (ValueUpdated(e) /\ PowerSample(e) /\ Key(e) \in DOMAIN consumption) =>
         LET energyDelta == Times(Coerce(e.newValue, e.unit).value, Num(ElapsedSeconds(e)))
         IN /\ consumption'[Key(e)].joules = Plus(consumption[Key(e)].joules, energyDelta)
            /\ consumption'[Key(e)].last = now
            /\ Labels(e) \in DOMAIN consumed_counter'
            /\ consumed_counter'[Labels(e)]
                 = Plus(CounterValue(consumed_counter, Labels(e)), energyDelta)]_vars

\* C15 (as claimed): no power sample makes the handler attempt a negative
\* increment or end with an error, and no step decreases a counter value.
C15_CounterNeverRefuses ==
  /\ [][\A e \in Events : (ValueUpdated(e) /\ PowerSample(e)) => thrown' = "none"]_vars
  /\ [][\A labels \in DOMAIN consumed_counter :
          /\ labels \in DOMAIN consumed_counter'
          /\ ~Decreases(consumed_counter[labels], consumed_counter'[labels])]_vars

ConstructionErrors ==
  {"Invalid metric name", "A metric with this name has already been registered"}

\* C16: in every state, the cache holds exactly the gauges of the registry,
\* each with its description and label names; a scrape answers with exactly
\* the registered instruments, every gauge among them cached; a reaction that
\* ends with a construction error leaves cache and registry as they were.
C16_CreationIsAtomic ==
  /\ [](/\ DOMAIN metrics = Registered(registry) \ {CounterName}
        /\ \A i \in DOMAIN registry :
             registry[i].type = "gauge" =>
               /\ ValidMetricName(registry[i].name)
               /\ metrics[registry[i].name].help = registry[i].help
               /\ metrics[registry[i].name].labelNames = LabelNames
        /\ (response # None /\ response[1].status = 200) =>
             Range(response[1].body) \subseteq DOMAIN metrics \cup {CounterName})
  /\ [][\A req \in Requests :
          (Scrape(req) /\ req = [url |-> "/metrics", method |-> "GET"]) =>
            /\ response'[1].status = 200
            /\ Range(response'[1].body) = DOMAIN metrics \cup {CounterName}]_vars
  /\ [][\A e \in LifecycleEvents :
          (ValueUpdated(e) /\ thrown' \in ConstructionErrors) =>
            registry' = registry /\ metrics' = metrics]_vars

\* C16 witness: the water gauge could not be constructed, the power gauge
\* was, and a scrape was answered with the counter and the power gauge only
C16_Witness ==
  /\ thrown = "Invalid metric name"
  /\ DOMAIN metrics = {PowerMetricName}
  /\ response # None
  /\ response[1] = [status |-> 200, body |-> <<CounterName, PowerMetricName>>]

\* C17: an event that derives another metric name than the power metric
\* leaves the accumulator map and the counter unchanged; an event that derives
\* the power metric name leaves its key in the accumulator map, observed now,
\* created as (now, 0) or advanced from the state it had.
C17_OnlyPowerIsAccrued ==
  [][\A e \in Events :
       (ValueUpdated(e) /\ ~Coerce(e.newValue, e.unit).threw) =>
         IF MetricNameOf(e) # PowerMetricName
         THEN UNCHANGED <<consumption, consumed_counter>>
         ELSE /\ Key(e) \in DOMAIN consumption'
              /\ consumption'[Key(e)].last = now
              /\ consumption'[Key(e)].joules =
                   IF Key(e) \in DOMAIN consumption
                   THEN Plus(consumption[Key(e)].joules,
                             Times(Coerce(e.newValue, e.unit).value, Num(ElapsedSeconds(e))))
                   ELSE Num(0)]_vars

\* C17 witness: the CO2 gauge was set at t = 1 s, after the power meter of
\* the same node had its first two samples at t = 0
C17_Witness ==
  /\ now = 1000
  /\ Co2MetricName \in DOMAIN metrics
  /\ [node |-> 1, endpoint |-> 0, name |-> "kitchen"] \in DOMAIN metrics[Co2MetricName].hashMap
  /\ <<1, 0>> \in DOMAIN consumption
  /\ consumption[<<1, 0>>].last = 0
  /\ [node |-> 1, endpoint |-> 0, name |-> "kitchen"] \in DOMAIN consumed_counter

\* C18: a 'value updated' event leaves the state of every key but its own
\* unchanged; in every step, whatever its trigger, a key that has state keeps
\* it, unchanged unless the step is a power event of that very key, which
\* advances the state from what it was (and never starts it again from zero).
C18_StatesIndependentAndPermanent ==
  /\ [][\A e \in LifecycleEvents :
          ValueUpdated(e) =>
            \A k \in DOMAIN consumption \ {<<e.node, e.endpoint>>} :
              k \in DOMAIN consumption' /\ consumption'[k] = consumption[k]]_vars
  /\ [][\A k \in DOMAIN consumption :
          /\ k \in DOMAIN consumption'
          /\ \/ consumption'[k] = consumption[k]
             \/ \E e \in LifecycleEvents :
                  /\ ValueUpdated(e)
                  /\ DerivesPower(e)
                  /\ <<e.node, e.endpoint>> = k
                  /\ consumption'[k].last = now
                  /\ consumption'[k].joules =
                       Plus(consumption[k].joules,
                            Times(Coerce(e.newValue, e.unit).value,
                                  Num((now - consumption[k].last) \div 1000)))]_vars

\* C18 witness: node 1 accrued 100 J at t = 1 s; node 2, whose state was
\* created at t = 0, kept it, while a refresh timer fired and a scrape was
\* answered
C18_Witness ==
  /\ DOMAIN consumption = {<<1, 0>>, <<2, 0>>}
  /\ consumption[<<1, 0>>] = [last |-> 1000, joules |-> Num(100)]
  /\ consumption[<<2, 0>>] = [last |-> 0, joules |-> Num(0)]
  /\ last_polled = Some(1)
  /\ response # None

\* The sum of the counter's values over a set of label sets
RECURSIVE SumOver(_, _)
SumOver(c, labelSets) ==
  IF labelSets = {} THEN Num(0)
  ELSE LET labels == CHOOSE l \in labelSets : TRUE
       IN Plus(c[labels], SumOver(c, labelSets \ {labels}))

\* C19 (as claimed): in every state, for every key that has state, the
\* counter's values of the key's node and endpoint, summed over the name
\* label, equal the key's cumulativeJoules.
C19_CounterEqualsJoules ==
  \A k \in DOMAIN consumption :
    SumOver(consumed_counter, {l \in DOMAIN consumed_counter : KeyOfLabels(l) = k})
      = consumption[k].joules

====
